---- MODULE Spec2Model ----
(***************************************************************************)
(* Model of the naming engine and the result-set class builder of          *)
(* reverse-sql:                                                            *)
(*   src/src/mapper/reverse-sql-object-name-provider.ts                    *)
(*       DefaultReverseSqlObjectNameProvider                               *)
(*   src/unnamed/part_000                                                  *)
(*       ResultSetClassBuilder.buildStoredProcResultSetClasses             *)
(*                                                                         *)
(* A JavaScript string is a sequence of characters; a character is a       *)
(* one-character TLA+ string, except the two non-ASCII letters e-acute,    *)
(* written "U+00E9", and E-acute, written "U+00C9".  An optional field     *)
(* (schema?, name?, resultSets) that is absent is a field missing from the *)
(* record's DOMAIN.                                                        *)
(***************************************************************************)
EXTENDS Integers, Sequences, FiniteSets

VARIABLES provider, pc, call, name, classDefinitions

vars == <<provider, pc, call, name, classDefinitions>>

(***************************************************************************)
(* Bounds of the model.                                                    *)
(***************************************************************************)
MaxLen == 3

MaxOrdinal == 1

MaxCols == 2

MaxProcs == 3

(***************************************************************************)
(* Characters.                                                             *)
(***************************************************************************)
LowerLetters == <<"a","b","c","d","e","f","g","h","i","j","k","l","m",
                  "n","o","p","q","r","s","t","u","v","w","x","y","z">>

UpperLetters == <<"A","B","C","D","E","F","G","H","I","J","K","L","M",
                  "N","O","P","Q","R","S","T","U","V","W","X","Y","Z">>

DigitChars == <<"0","1","2","3","4","5","6","7","8","9">>

IsIn(c, chars) == \E i \in 1..Len(chars) : chars[i] = c

IsAsciiLetter(c) == IsIn(c, LowerLetters) \/ IsIn(c, UpperLetters)

IsDigit(c) == IsIn(c, DigitChars)

\* The regular expression class \w of JavaScript (no unicode flag): [A-Za-z0-9_].
IsWordChar(c) == IsAsciiLetter(c) \/ IsDigit(c) \/ c = "_"

\* String.prototype.toUpperCase on one character.
toUpperCase(c) ==
    IF IsIn(c, LowerLetters)
    THEN UpperLetters[CHOOSE i \in 1..Len(LowerLetters) : LowerLetters[i] = c]
    ELSE IF c = "U+00E9" THEN "U+00C9" ELSE c

\* String.prototype.toLowerCase on one character.
toLowerCase(c) ==
    IF IsIn(c, UpperLetters)
    THEN LowerLetters[CHOOSE i \in 1..Len(UpperLetters) : UpperLetters[i] = c]
    ELSE IF c = "U+00C9" THEN "U+00E9" ELSE c

\* Decimal digits of a natural number, as a template literal prints it.
RECURSIVE NumberToString(_)
NumberToString(n) ==
    IF n < 10 THEN <<DigitChars[n + 1]>>
    ELSE NumberToString(n \div 10) \o <<DigitChars[(n % 10) + 1]>>

\* JavaScript truthiness of an optional string field: present and not ''.
Truthy(object, field) == field \in DOMAIN object /\ object[field] # <<>>

(***************************************************************************)
(* String literals of the source.                                          *)
(***************************************************************************)
dbo == <<"d","b","o">>

Underscore == <<"_">>

AtSign == <<"@">>

ResultSuffix == <<"R","e","s","u","l","t">>

MapperSuffix == <<"M","a","p","p","e","r">>

ColumnPrefix == <<"C","o","l","u","m","n">>

InsertVerb == <<"I","n","s","e","r","t">>

DeleteVerb == <<"D","e","l","e","t","e">>

UpdateVerb == <<"U","p","d","a","t","e">>

SelectVerb == <<"S","e","l","e","c","t">>

WhereSuffix == <<"W","h","e","r","e">>

(***************************************************************************)
(* Library functions the provider imports.                                 *)
(***************************************************************************)
\* NameUtility.capitalize of @yellicode/core: upper-cases the first character.
capitalize(input) ==
    IF input = <<>> THEN input
    ELSE <<toUpperCase(Head(input))>> \o Tail(input)

\* NameUtility.upperToLowerCamelCase of @yellicode/core: lower-cases the
\* first character of an UpperCamelCase name (the library's source is not
\* part of this package; a run of capitals is not treated specially here).
upperToLowerCamelCase(input) ==
    IF input = <<>> THEN input
    ELSE <<toLowerCase(Head(input))>> \o Tail(input)

\* A few of the reserved keywords of C#.
ReservedKeywords ==
    { <<"a","s">>, <<"i","s">>, <<"i","n">>, <<"i","n","t">>,
      <<"n","e","w">>, <<"c","l","a","s","s">> }

\* isReservedKeyword of @yellicode/csharp.
isReservedKeyword(n) == n \in ReservedKeywords

(***************************************************************************)
(* DefaultReverseSqlObjectNameProvider.  `this` is the provider object,    *)
(* [includeSchema |-> BOOLEAN].                                            *)
(***************************************************************************)
\* The same replace without the g flag: only the first match is removed.
RECURSIVE cleanupFirstOnly(_)
cleanupFirstOnly(input) ==
    IF input = <<>> THEN <<>>
    ELSE IF IsWordChar(Head(input))
         THEN <<Head(input)>> \o cleanupFirstOnly(Tail(input))
         ELSE Tail(input)

\* input.replace(/[^\w]/g, ''): each character that does not match \w is
\* replaced by the empty string, left to right.  A falsy input gives ''.
RECURSIVE cleanup(_)
cleanup(input) ==
    IF input = <<>> THEN <<>>
    ELSE IF IsWordChar(Head(input))
         THEN <<Head(input)>> \o cleanup(Tail(input))
         ELSE cleanup(Tail(input))

getStoredProcedureResultSetClassName(this, sp) ==
    LET cleanedUpSpName == cleanup(sp.name)
    IN  IF this.includeSchema /\ Truthy(sp, "schema") /\ sp.schema # dbo
        THEN cleanup(sp.schema) \o Underscore \o cleanedUpSpName \o ResultSuffix
        ELSE cleanedUpSpName \o ResultSuffix

getTableClassName(this, table) ==
    LET cleanedUpTableName == cleanup(table.name)
    IN  IF this.includeSchema /\ Truthy(table, "schema") /\ table.schema # dbo
        THEN cleanup(table.schema) \o Underscore \o cleanedUpTableName
        ELSE cleanedUpTableName

getTableTypeClassName(this, tableType) ==
    LET cleanedUpTableName == cleanup(tableType.name)
    IN  IF this.includeSchema /\ Truthy(tableType, "schema")
        THEN cleanup(tableType.schema) \o Underscore \o cleanedUpTableName
        ELSE cleanedUpTableName

getResultSetMapperClassName(this, resultSetClassName) ==
    resultSetClassName \o MapperSuffix

getColumnPropertyName(this, col) ==
    IF ~Truthy(col, "name") THEN ColumnPrefix \o NumberToString(col.ordinal)
    ELSE cleanup(col.name)

getCleanObjectNameWithSchema(this, object) ==
    LET cleanedUpName == cleanup(object.name)
    IN  IF this.includeSchema /\ Truthy(object, "schema") /\ object.schema # dbo
        THEN capitalize(cleanup(object.schema)) \o Underscore \o cleanedUpName
        ELSE cleanedUpName

\* The object literal { schema: table.schema, name: ... } of the CRUD methods.
WithName(table, newName) ==
    IF "schema" \in DOMAIN table
    THEN [schema |-> table.schema, name |-> newName]
    ELSE [name |-> newName]

getStoredProcedureMethodName(this, sp) == getCleanObjectNameWithSchema(this, sp)

getTableInsertMethodName(this, table) ==
    getCleanObjectNameWithSchema(this,
        WithName(table, InsertVerb \o capitalize(table.name)))

getTableDeleteMethodName(this, table) ==
    getCleanObjectNameWithSchema(this,
        WithName(table, DeleteVerb \o capitalize(table.name)))

getTableUpdateMethodName(this, table) ==
    getCleanObjectNameWithSchema(this,
        WithName(table, UpdateVerb \o capitalize(table.name)))

getTableSelectByPrimaryKeyMethodName(this, table) ==
    getCleanObjectNameWithSchema(this,
        WithName(table, SelectVerb \o capitalize(table.name)))

getTableSelectByExpressionMethodName(this, table) ==
    getCleanObjectNameWithSchema(this,
        WithName(table, SelectVerb \o capitalize(table.name) \o WhereSuffix))

\* The keyword test made on the name before it is camel-cased.
getParameterNameKeywordTestFirst(this, parameter) ==
    LET stripped == IF parameter.name # <<>> /\ Head(parameter.name) = "@"
                    THEN Tail(parameter.name) ELSE parameter.name
        cleaned  == cleanup(stripped)
    IN  IF isReservedKeyword(cleaned)
        THEN AtSign \o upperToLowerCamelCase(cleaned)
        ELSE upperToLowerCamelCase(cleaned)

getParameterName(this, parameter) ==
    LET name0 == IF parameter.name # <<>> /\ Head(parameter.name) = "@"
                 THEN Tail(parameter.name) ELSE parameter.name
        name1 == cleanup(name0)
        name2 == upperToLowerCamelCase(name1)
    IN  IF isReservedKeyword(name2) THEN AtSign \o name2 ELSE name2

(***************************************************************************)
(* ResultSetClassBuilder.  `this` is the builder object,                   *)
(* [objectNameProvider |-> provider].  JavaScript arrays start at 0 and    *)
(* TLA+ sequences at 1: resultSets[1] is the source's sp.resultSets[0].    *)
(***************************************************************************)
\* The target types that take the nullable wrapper (the value types).
ValueTypeNames == {"int", "bool", "DateTime", "decimal", "Guid"}

\* SqlToCSharpTypeMapper.canBeNullable.
canBeNullable(typeName) == typeName \in ValueTypeNames

\* The property taking the column's nullability as it is.
propertyDefinitionUngated(this, col) ==
    [ name |-> getColumnPropertyName(this.objectNameProvider, col),
      typeName |-> col.objectTypeName,
      accessModifier |-> "public",
      isNullable |-> col.isNullable ]

\* The body of the inner forEach: the property of one column.  The source
\* names the provider's method getResultSetColumnPropertyName; the provider
\* declares it as getColumnPropertyName.
propertyDefinition(this, col) ==
    [ name |-> getColumnPropertyName(this.objectNameProvider, col),
      typeName |-> col.objectTypeName,
      accessModifier |-> "public",
      isNullable |-> col.isNullable /\ canBeNullable(col.objectTypeName) ]

\* The columns of every result set, one after the other.
RECURSIVE AllColumns(_)
AllColumns(resultSets) ==
    IF resultSets = <<>> THEN <<>>
    ELSE Head(resultSets).columns \o AllColumns(Tail(resultSets))

\* The class taking the columns of every result set.
classDefinitionAllResultSets(this, sp) ==
    LET columns == AllColumns(sp.resultSets)
    IN  [ name |-> getStoredProcedureResultSetClassName(this.objectNameProvider, sp),
          accessModifier |-> "public",
          properties |-> [i \in 1..Len(columns) |->
                             propertyDefinition(this, columns[i])] ]

\* The class of one stored procedure that has a result set.  The source
\* names the provider's method getResultSetClassName; the provider declares
\* it as getStoredProcedureResultSetClassName.
classDefinition(this, sp) ==
    LET columns == sp.resultSets[1].columns
    IN  [ name |-> getStoredProcedureResultSetClassName(this.objectNameProvider, sp),
          accessModifier |-> "public",
          properties |-> [i \in 1..Len(columns) |->
                             propertyDefinition(this, columns[i])] ]

\* !sp.resultSets || !sp.resultSets.length
HasNoResultSets(sp) == "resultSets" \notin DOMAIN sp \/ Len(sp.resultSets) = 0

\* The same loop adding each class at the front of the array.
RECURSIVE buildStoredProcResultSetClassesUnshift(_, _)
buildStoredProcResultSetClassesUnshift(this, storedProcedures) ==
    IF storedProcedures = <<>> THEN <<>>
    ELSE IF HasNoResultSets(Head(storedProcedures))
         THEN buildStoredProcResultSetClassesUnshift(this, Tail(storedProcedures))
         ELSE buildStoredProcResultSetClassesUnshift(this, Tail(storedProcedures))
              \o <<classDefinition(this, Head(storedProcedures))>>

RECURSIVE buildStoredProcResultSetClasses(_, _)
buildStoredProcResultSetClasses(this, storedProcedures) ==
    IF storedProcedures = <<>> THEN <<>>
    ELSE IF HasNoResultSets(Head(storedProcedures))
         THEN buildStoredProcResultSetClasses(this, Tail(storedProcedures))
         ELSE <<classDefinition(this, Head(storedProcedures))>>
              \o buildStoredProcResultSetClasses(this, Tail(storedProcedures))

\* The constructor of the builder with the default provider.
ResultSetClassBuilder(objectNameProvider) ==
    [objectNameProvider |-> objectNameProvider]

(***************************************************************************)
(* Inputs.                                                                 *)
(***************************************************************************)
BoundedSeq(S, n) == UNION { [1..k -> S] : k \in 0..n }

\* An upper-case and a lower-case letter, a digit, the underscore, a
\* character outside every class, and a letter outside ASCII.
Alphabet == {"I", "s", "1", "_", "-", "U+00E9"}

sales == <<"s","a","l","e","s">>

GetOrders == <<"G","e","t","O","r","d","e","r","s">>

Customer == <<"C","u","s","t","o","m","e","r">>

customerId == <<"c","u","s","t","o","m","e","r","I","d">>

ExampleNames ==
    { GetOrders, Customer, customerId,
      <<"c","l","a","s","s">>, <<"C","l","a","s","s">>,
      <<"M","y"," ","T","y","p","e">>, <<"1","s","t">> }

Names == BoundedSeq(Alphabet, MaxLen) \cup ExampleNames

ObjectNames == BoundedSeq(Alphabet, MaxLen - 1) \cup ExampleNames

Schemas == { <<>>, dbo, sales, <<"D","b","o">>, <<"-","s","1">> }

\* Tables, table types and stored procedures as the provider reads them.
DbObjects ==
    { [name |-> n] : n \in ObjectNames }
    \cup { [schema |-> s, name |-> n] : s \in Schemas, n \in ObjectNames }

Ordinals == 0..MaxOrdinal \cup {10}

ColumnArgs ==
    { [ordinal |-> o] : o \in Ordinals }
    \cup { [name |-> n, ordinal |-> o] : n \in Names, o \in Ordinals }

SqlParameters ==
    { [name |-> n] : n \in Names }
    \cup { [name |-> AtSign \o n] : n \in Names }
    \cup { [name |-> AtSign \o AtSign \o n] : n \in ExampleNames }

ObjectTypeNames == {"int", "string"}

ResultSetColumns ==
    { [ordinal |-> o, objectTypeName |-> t, isNullable |-> b] :
        o \in 0..MaxOrdinal, t \in ObjectTypeNames, b \in BOOLEAN }
    \cup { [name |-> <<"I","d">>, ordinal |-> o, objectTypeName |-> t,
            isNullable |-> b] :
        o \in 0..MaxOrdinal, t \in ObjectTypeNames, b \in BOOLEAN }

ResultSets == { [columns |-> cs] : cs \in BoundedSeq(ResultSetColumns, MaxCols) }

OtherResultSet ==
    [columns |-> <<[name |-> <<"X">>, ordinal |-> 0, objectTypeName |-> "int",
                    isNullable |-> TRUE]>>]

\* One stored procedure with every shape of first result set.
SingleProcedureInputs ==
    { <<[schema |-> sales, name |-> GetOrders, resultSets |-> <<rs>>]>> :
        rs \in ResultSets }
    \cup { <<[schema |-> sales, name |-> GetOrders,
              resultSets |-> <<rs, OtherResultSet>>]>> : rs \in ResultSets }

PoolResultSets ==
    { <<>>, <<[columns |-> <<>>]>>, <<OtherResultSet>>,
      <<[columns |-> <<>>], OtherResultSet>> }

PoolObjects ==
    { [schema |-> sales, name |-> GetOrders], [name |-> <<"P">>],
      [schema |-> dbo, name |-> <<"Q","-","1">>] }

WithResultSets(o, rs) ==
    IF "schema" \in DOMAIN o
    THEN [schema |-> o.schema, name |-> o.name, resultSets |-> rs]
    ELSE [name |-> o.name, resultSets |-> rs]

ProcedurePool ==
    { [name |-> <<"P">>] }
    \cup { WithResultSets(o, rs) : o \in PoolObjects, rs \in PoolResultSets }

StoredProcedureInputs ==
    SingleProcedureInputs \cup BoundedSeq(ProcedurePool, MaxProcs)

(***************************************************************************)
(* The state machine: a provider is constructed, then its methods and the  *)
(* builder's are called one at a time; the caller takes each result.       *)
(***************************************************************************)
NoCall == [op |-> "none"]

Init ==
    /\ provider \in { [includeSchema |-> b] : b \in BOOLEAN }
    /\ pc = "idle"
    /\ call = NoCall
    /\ name = <<>>
    /\ classDefinitions = <<>>

Returns(op, arg, result) ==
    /\ pc' = "returned"
    /\ call' = [op |-> op, arg |-> arg]
    /\ name' = result
    /\ UNCHANGED <<provider, classDefinitions>>

Cleanup ==
    /\ pc = "idle"
    /\ \E input \in Names : Returns("cleanup", input, cleanup(input))

GetStoredProcedureResultSetClassName ==
    /\ pc = "idle"
    /\ \E sp \in DbObjects :
        Returns("getStoredProcedureResultSetClassName", sp,
                getStoredProcedureResultSetClassName(provider, sp))

GetTableClassName ==
    /\ pc = "idle"
    /\ \E table \in DbObjects :
        Returns("getTableClassName", table, getTableClassName(provider, table))

GetTableTypeClassName ==
    /\ pc = "idle"
    /\ \E tableType \in DbObjects :
        Returns("getTableTypeClassName", tableType,
                getTableTypeClassName(provider, tableType))

GetResultSetMapperClassName ==
    /\ pc = "idle"
    /\ \E n \in Names :
        Returns("getResultSetMapperClassName", n,
                getResultSetMapperClassName(provider, n))

GetColumnPropertyName ==
    /\ pc = "idle"
    /\ \E col \in ColumnArgs :
        Returns("getColumnPropertyName", col, getColumnPropertyName(provider, col))

GetStoredProcedureMethodName ==
    /\ pc = "idle"
    /\ \E sp \in DbObjects :
        Returns("getStoredProcedureMethodName", sp,
                getStoredProcedureMethodName(provider, sp))

GetTableInsertMethodName ==
    /\ pc = "idle"
    /\ \E table \in DbObjects :
        Returns("getTableInsertMethodName", table,
                getTableInsertMethodName(provider, table))

GetTableDeleteMethodName ==
    /\ pc = "idle"
    /\ \E table \in DbObjects :
        Returns("getTableDeleteMethodName", table,
                getTableDeleteMethodName(provider, table))

GetTableUpdateMethodName ==
    /\ pc = "idle"
    /\ \E table \in DbObjects :
        Returns("getTableUpdateMethodName", table,
                getTableUpdateMethodName(provider, table))

GetTableSelectByPrimaryKeyMethodName ==
    /\ pc = "idle"
    /\ \E table \in DbObjects :
        Returns("getTableSelectByPrimaryKeyMethodName", table,
                getTableSelectByPrimaryKeyMethodName(provider, table))

GetTableSelectByExpressionMethodName ==
    /\ pc = "idle"
    /\ \E table \in DbObjects :
        Returns("getTableSelectByExpressionMethodName", table,
                getTableSelectByExpressionMethodName(provider, table))

GetParameterName ==
    /\ pc = "idle"
    /\ \E parameter \in SqlParameters :
        Returns("getParameterName", parameter, getParameterName(provider, parameter))

BuildStoredProcResultSetClasses ==
    /\ pc = "idle"
    /\ \E storedProcedures \in StoredProcedureInputs :
        /\ pc' = "returned"
        /\ call' = [op |-> "buildStoredProcResultSetClasses", arg |-> storedProcedures]
        /\ classDefinitions' =
               buildStoredProcResultSetClasses(ResultSetClassBuilder(provider),
                                               storedProcedures)
        /\ UNCHANGED <<provider, name>>

\* The caller has taken the result; the next call can be made.
Return ==
    /\ pc = "returned"
    /\ pc' = "idle"
    /\ call' = NoCall
    /\ name' = <<>>
    /\ classDefinitions' = <<>>
    /\ UNCHANGED provider

Next ==
    \/ Cleanup
    \/ GetStoredProcedureResultSetClassName
    \/ GetTableClassName
    \/ GetTableTypeClassName
    \/ GetResultSetMapperClassName
    \/ GetColumnPropertyName
    \/ GetStoredProcedureMethodName
    \/ GetTableInsertMethodName
    \/ GetTableDeleteMethodName
    \/ GetTableUpdateMethodName
    \/ GetTableSelectByPrimaryKeyMethodName
    \/ GetTableSelectByExpressionMethodName
    \/ GetParameterName
    \/ BuildStoredProcResultSetClasses
    \/ Return

Spec == Init /\ [][Next]_vars

(***************************************************************************)
(* Properties.                                                             *)
(***************************************************************************)
Returned(op) == pc = "returned" /\ call.op = op

BuildReturned == Returned("buildStoredProcResultSetClasses")

\* The positions of the stored procedures that have at least one result set.
WithResultSet(sps) ==
    { i \in 1..Len(sps) : "resultSets" \in DOMAIN sps[i] /\ sps[i].resultSets # <<>> }

\* The k-th smallest element of a set of positions.
KthOf(S, k) == CHOOSE i \in S : Cardinality({ j \in S : j < i }) = k - 1

\* The columns of the first result set of the k-th procedure that has one.
FirstColumns(sps, k) == sps[KthOf(WithResultSet(sps), k)].resultSets[1].columns

\* C1: for every column of the first result set of every stored procedure
\* given to buildStoredProcResultSetClasses, the property's isNullable is
\* true exactly when the column is nullable and canBeNullable holds of its
\* type name; a nullable column of a type that cannot be wrapped gives a
\* property that is not nullable.
C1_NullableIffColumnNullableAndTypeCanBe ==
    BuildReturned =>
        /\ Len(classDefinitions) = Cardinality(WithResultSet(call.arg))
        /\ \A k \in 1..Len(classDefinitions) :
             LET columns == FirstColumns(call.arg, k)
                 properties == classDefinitions[k].properties
             IN  /\ Len(properties) = Len(columns)
                 /\ \A j \in 1..Len(columns) :
                      (properties[j].isNullable = TRUE)
                        <=> (columns[j].isNullable
                             /\ canBeNullable(columns[j].objectTypeName))

\* A nullable column of a type without nullable wrapper has been built into
\* a property that is not nullable, next to a nullable one.
C1_Witness ==
    /\ BuildReturned
    /\ Len(classDefinitions) = 1
    /\ LET columns == FirstColumns(call.arg, 1)
           properties == classDefinitions[1].properties
       IN  /\ Len(columns) = 2
           /\ columns[1].isNullable /\ ~canBeNullable(columns[1].objectTypeName)
           /\ properties[1].isNullable = FALSE
           /\ columns[2].isNullable /\ canBeNullable(columns[2].objectTypeName)
           /\ properties[2].isNullable = TRUE

\* C2: with includeSchema and a schema that is present and not 'dbo',
\* getTableClassName(t) is cleanup(capitalize(t.schema)), an underscore and
\* cleanup(t.name).
C2_TableClassNameHasCapitalizedSchema ==
    ( /\ Returned("getTableClassName")
      /\ provider.includeSchema
      /\ Truthy(call.arg, "schema")
      /\ call.arg.schema # dbo )
    => name = cleanup(capitalize(call.arg.schema)) \o Underscore
                \o cleanup(call.arg.name)

\* The name-deriving operations that take an object with a schema.
SchemaQualifyingOps ==
    { "getTableClassName", "getTableTypeClassName", "getStoredProcedureMethodName",
      "getStoredProcedureResultSetClassName", "getTableInsertMethodName",
      "getTableDeleteMethodName", "getTableUpdateMethodName",
      "getTableSelectByPrimaryKeyMethodName", "getTableSelectByExpressionMethodName" }

Apply(op, this, arg) ==
    CASE op = "getTableClassName" -> getTableClassName(this, arg)
      [] op = "getTableTypeClassName" -> getTableTypeClassName(this, arg)
      [] op = "getStoredProcedureMethodName" -> getStoredProcedureMethodName(this, arg)
      [] op = "getStoredProcedureResultSetClassName" ->
              getStoredProcedureResultSetClassName(this, arg)
      [] op = "getTableInsertMethodName" -> getTableInsertMethodName(this, arg)
      [] op = "getTableDeleteMethodName" -> getTableDeleteMethodName(this, arg)
      [] op = "getTableUpdateMethodName" -> getTableUpdateMethodName(this, arg)
      [] op = "getTableSelectByPrimaryKeyMethodName" ->
              getTableSelectByPrimaryKeyMethodName(this, arg)
      [] op = "getTableSelectByExpressionMethodName" ->
              getTableSelectByExpressionMethodName(this, arg)

\* C3: every name-deriving operation adds a schema prefix exactly when
\* includeSchema is true and the schema is present and not 'dbo': the name
\* differs from the one a provider without includeSchema returns in that
\* case and in no other (so with schema 'dbo' it is the same name).
C3_SchemaRuleSharedByEveryOperation ==
    (pc = "returned" /\ call.op \in SchemaQualifyingOps) =>
        LET unqualified == Apply(call.op, [includeSchema |-> FALSE], call.arg)
            qualifies == /\ provider.includeSchema
                         /\ Truthy(call.arg, "schema")
                         /\ call.arg.schema # dbo
        IN  (name # unqualified) <=> qualifies

\* C4: with includeSchema and a schema that is present and not 'dbo',
\* getStoredProcedureResultSetClassName(sp) is the cleaned, capitalized
\* schema, an underscore, the cleaned procedure name and 'Result'
\* (sales.GetOrders gives Sales_GetOrdersResult).
C4_ResultSetClassNameHasCapitalizedSchema ==
    ( /\ Returned("getStoredProcedureResultSetClassName")
      /\ provider.includeSchema
      /\ Truthy(call.arg, "schema")
      /\ call.arg.schema # dbo )
    => /\ name \in { capitalize(cleanup(call.arg.schema)) \o Underscore
                        \o cleanup(call.arg.name) \o ResultSuffix,
                     cleanup(capitalize(call.arg.schema)) \o Underscore
                        \o cleanup(call.arg.name) \o ResultSuffix }
       /\ (call.arg.schema = sales /\ call.arg.name = GetOrders)
            => name = <<"S","a","l","e","s","_">> \o GetOrders \o ResultSuffix

\* C5: buildStoredProcResultSetClasses returns one class for each stored
\* procedure that has at least one result set and none for the others, in
\* the order of the stored procedures in the input.
C5_OneClassPerProcedureWithResultSetInOrder ==
    BuildReturned =>
        LET sps == call.arg
            kept == WithResultSet(sps)
        IN  /\ Len(classDefinitions) = Cardinality(kept)
            /\ \A k \in 1..Len(classDefinitions) :
                 /\ classDefinitions[k].name =
                        getStoredProcedureResultSetClassName(provider,
                                                             sps[KthOf(kept, k)])
                 /\ Len(classDefinitions[k].properties)
                        = Len(sps[KthOf(kept, k)].resultSets[1].columns)

\* Three stored procedures, the second without result sets and the first
\* and the third with differently named classes, have given two classes.
C5_Witness ==
    /\ BuildReturned
    /\ Len(call.arg) = 3
    /\ WithResultSet(call.arg) = {1, 3}
    /\ "resultSets" \notin DOMAIN call.arg[2]
    /\ Len(classDefinitions) = 2
    /\ classDefinitions[1].name # classDefinitions[2].name

\* The permutations of 1..n.
Permutations(n) ==
    { p \in [1..n -> 1..n] : \A i, j \in 1..n : p[i] = p[j] => i = j }

\* C6 as stated: the class has one property per column of the first result
\* set, the i-th property derived from the column with the i-th smallest
\* ordinal, and later result sets give no property.
C6_PropertiesInOrdinalOrder ==
    BuildReturned =>
        /\ Len(classDefinitions) = Cardinality(WithResultSet(call.arg))
        /\ \A k \in 1..Len(classDefinitions) :
             LET columns == FirstColumns(call.arg, k)
                 properties == classDefinitions[k].properties
             IN  /\ Len(properties) = Len(columns)
                 /\ \E p \in Permutations(Len(columns)) :
                      /\ \A i, j \in 1..Len(columns) :
                           i < j => columns[p[i]].ordinal <= columns[p[j]].ordinal
                      /\ \A i \in 1..Len(columns) :
                           /\ properties[i].name =
                                  getColumnPropertyName(provider, columns[p[i]])
                           /\ properties[i].typeName = columns[p[i]].objectTypeName

\* C6, amended: the class has one property per column of the first result
\* set, the i-th property derived from the i-th column of the result set's
\* column list, and later result sets give no property.
C6_PropertiesInColumnListOrder ==
    BuildReturned =>
        /\ Len(classDefinitions) = Cardinality(WithResultSet(call.arg))
        /\ \A k \in 1..Len(classDefinitions) :
             LET columns == FirstColumns(call.arg, k)
                 properties == classDefinitions[k].properties
             IN  /\ Len(properties) = Len(columns)
                 /\ \A i \in 1..Len(columns) :
                      /\ properties[i].name =
                             getColumnPropertyName(provider, columns[i])
                      /\ properties[i].typeName = columns[i].objectTypeName

\* A stored procedure with two result sets, the first listing two columns
\* against their ordinals, has given a class of two properties.
C6_Witness ==
    /\ BuildReturned
    /\ Len(call.arg) = 1
    /\ "resultSets" \in DOMAIN call.arg[1]
    /\ Len(call.arg[1].resultSets) = 2
    /\ LET columns == call.arg[1].resultSets[1].columns
       IN  /\ Len(columns) = 2
           /\ columns[1].ordinal > columns[2].ordinal
    /\ Len(classDefinitions) = 1
    /\ Len(classDefinitions[1].properties) = 2

\* C7: a stored procedure whose first result set has no column gives no
\* class: every class of the output has at least one property.
C7_EveryClassHasAProperty ==
    BuildReturned =>
        \A k \in 1..Len(classDefinitions) :
            Len(classDefinitions[k].properties) >= 1

\* C8: getParameterName strips one leading '@', cleans the rest, converts
\* it to lower camel case giving n, and returns n when n is not a reserved
\* keyword and '@' followed by n when it is; the result starts with '@'
\* only when n is reserved ('@customerId' gives 'customerId').
C8_ParameterNameEscapedIffReserved ==
    Returned("getParameterName") =>
        LET raw == call.arg.name
            stripped == IF raw # <<>> /\ raw[1] = "@"
                        THEN SubSeq(raw, 2, Len(raw)) ELSE raw
            n == upperToLowerCamelCase(cleanup(stripped))
        IN  /\ isReservedKeyword(n) => name = AtSign \o n
            /\ ~isReservedKeyword(n) => name = n
            /\ (name # <<>> /\ name[1] = "@") => isReservedKeyword(n)
            /\ raw = AtSign \o customerId => name = customerId

\* The parameter '@Is' has been named '@is'.
C8_Witness ==
    /\ Returned("getParameterName")
    /\ call.arg.name = <<"@","I","s">>
    /\ name = <<"@","i","s">>

\* A legal identifier of the target language: not empty, not starting with
\* a digit, not a reserved keyword.
LegalIdentifier(n) == n # <<>> /\ ~IsDigit(n[1]) /\ ~isReservedKeyword(n)

\* C9: every class name of getTableClassName, getTableTypeClassName and
\* getStoredProcedureResultSetClassName and every property name of
\* getColumnPropertyName is a legal identifier of the target language.
C9_NamesAreLegalIdentifiers ==
    ( /\ pc = "returned"
      /\ call.op \in { "getTableClassName", "getTableTypeClassName",
                       "getStoredProcedureResultSetClassName",
                       "getColumnPropertyName" } )
    => LegalIdentifier(name)

\* The characters of s that Keep holds of, in their order in s.
Retained(s, Keep(_)) ==
    LET K == { i \in 1..Len(s) : Keep(s[i]) }
    IN  [ i \in 1..Cardinality(K) |-> s[KthOf(K, i)] ]

\* A letter of any alphabet, a digit or the underscore.
IsLetterDigitOrUnderscore(c) ==
    IsWordChar(c) \/ c \in {"U+00E9", "U+00C9"}

\* C10 as stated: cleanup(s) is the subsequence of the letters, digits and
\* underscores of s, and cleanup is idempotent.
C10_CleanupKeepsLettersDigitsUnderscores ==
    Returned("cleanup") =>
        /\ name = Retained(call.arg, IsLetterDigitOrUnderscore)
        /\ cleanup(name) = name

\* C10, amended: cleanup(s) is the subsequence of the ASCII letters, the
\* digits and the underscores of s (every other character, a letter outside
\* ASCII included, is removed), and cleanup is idempotent.
C10_CleanupKeepsAsciiWordCharacters ==
    Returned("cleanup") =>
        /\ name = Retained(call.arg, IsWordChar)
        /\ cleanup(name) = name

\* A string of two word characters around a letter outside ASCII has been
\* cleaned to the two word characters.
C10_Witness ==
    /\ Returned("cleanup")
    /\ Len(call.arg) = 3
    /\ IsWordChar(call.arg[1])
    /\ call.arg[2] = "U+00E9"
    /\ IsWordChar(call.arg[3])
    /\ name = <<call.arg[1], call.arg[3]>>

====
